---- MODULE Spec2Model ----
(***************************************************************************)
(* The JellySetup wizard (src/src/App.tsx and the Wizard components) as a  *)
(* state machine: the wizard step, the zustand store, the local state of   *)
(* the mounted component, and every asynchronous call or timer that is     *)
(* still outstanding (backend invocations, setTimeout callbacks).  An      *)
(* outstanding call keeps the closure it was started with and completes    *)
(* whether or not the component that started it is still mounted.  Spec    *)
(* follows the calls of a session; the progress events a run emits and the *)
(* connection of an install run are followed from the states of Spec that  *)
(* SpecInstallRun, SpecFlashOverlap and SpecInstallOverlap start in.       *)
(***************************************************************************)
EXTENDS Naturals, Integers, Sequences, FiniteSets, Bags, TLC

\* ------------------------------------------------------------------ bounds
MaxFlashRuns == 2        \* startFlashing tasks created in one session
MaxInstallRuns == 2      \* runConfiguration tasks created in one session
MaxLookups == 1          \* discover_pi calls outstanding at the same time
AttemptCap == 2          \* attempts one discovery loop is followed for
LoopCap == 61            \* the same, when only the discovery loop is followed
NumDevices == 1          \* storage devices the platform can report
MaxEvents == 1           \* progress events emitted and not yet handled
MaxOverlap == 2          \* discover_pi calls outstanding, where the loop alone is followed
NumCards == 2            \* cards the platform can report, where SD selection alone is followed

\* ------------------------------------------------------- text and patterns
JellyPi == <<"j", "e", "l", "l", "y", "p", "i">>
DotLocal == <<".", "l", "o", "c", "a", "l">>
ManualIp == <<"1", ".", "2", ".", "3", ".", "4">>
PiAddr == <<"9", ".", "9", ".", "9", ".", "9">>
NewAddr == <<"9", ".", "9", ".", "9", ".", "8">>
Empty == <<>>

IsDigit(c) == c \in {"0", "1", "2", "3", "4", "5", "6", "7", "8", "9"}
IsSpace(c) == c = " "

RECURSIVE trimStart(_)
trimStart(s) == IF s # <<>> /\ IsSpace(Head(s)) THEN trimStart(Tail(s)) ELSE s

RECURSIVE trimEnd(_)
trimEnd(s) ==
    IF s # <<>> /\ IsSpace(s[Len(s)]) THEN trimEnd(SubSeq(s, 1, Len(s) - 1)) ELSE s

\* trim that forgets the trailing white space
trimLeadingOnly(s) == trimStart(s)

\* String.prototype.trim
trim(s) == trimEnd(trimStart(s))

\* /^\d{1,3}\.\d{1,3}\.\d{1,3}\.\d{1,3}$/ : i is the position read, g the
\* number of groups closed by a dot, d the digits read in the current group.
RECURSIVE MatchQuad(_, _, _, _)
MatchQuad(s, i, g, d) ==
    IF i > Len(s) THEN g = 3 /\ d >= 1
    ELSE IF IsDigit(s[i]) THEN d < 3 /\ MatchQuad(s, i + 1, g, d + 1)
    ELSE IF s[i] = "." THEN d >= 1 /\ g < 3 /\ MatchQuad(s, i + 1, g + 1, 0)
    ELSE FALSE

isIP(s) == MatchQuad(s, 1, 0, 0)

IsPrefixAt(p, s, i) == i + Len(p) - 1 <= Len(s) /\ SubSeq(s, i, i + Len(p) - 1) = p

\* input.replace('.local', '') : removes the first occurrence only
RECURSIVE ReplaceFrom(_, _)
ReplaceFrom(s, i) ==
    IF i > Len(s) THEN s
    ELSE IF IsPrefixAt(DotLocal, s, i)
         THEN SubSeq(s, 1, i - 1) \o SubSeq(s, i + Len(DotLocal), Len(s))
         ELSE ReplaceFrom(s, i + 1)

replaceLocal(s) == ReplaceFrom(s, 1)

\* what the user may type in the manual field
ManualInputs ==
    { Empty, ManualIp, <<" ">> \o ManualIp \o <<" ">>, JellyPi \o DotLocal }

\* hostnames the user may type in the forms
Hostnames == {JellyPi}

\* config.hostname || 'jellypi'
OrDefault(h) == IF h = Empty THEN JellyPi ELSE h

\* WaitingPi: const maxAttempts = 60
maxAttempts == 60

Devices == 1 .. NumDevices
\* the same, where SD selection alone is followed
Cards == 1 .. NumCards
\* a disk the platform reports as not removable (the internal system disk)
InternalDisk == 0 - 1
\* what may be attached when list_sd_cards is called
Storage == Devices \cup {InternalDisk}
\* SDCard.removable
removable(d) == d # InternalDisk

\* an enumeration that reports every disk
listsEveryDisk(attached) == attached

\* list_sd_cards: the attached devices the platform reports as removable
list_sd_cards(attached) == {d \in attached : removable(d)}

\* null, for the store's piInfo (selectedSD, sshCredentials, installationId: 0)
NoPi == [ip |-> Empty, hostname |-> Empty]


\* ------------------------------------------------------------------- state
VARIABLES
    step,            \* App: const [step, setStep] = useState('permission')
    flowMode,        \* App: const [flowMode, setFlowMode] = useState('full')
    permission,      \* PermissionCheck: where checkPermission stands ("skip": the
                     \* jellysetup_fda_confirmed flag was set and the timer is armed)
    config,          \* store: config (hostname, and whether the other required fields are filled)
    selectedSD,      \* store: selectedSD
    sshCredentials,  \* store: sshCredentials (0 is null, k the k-th generated keypair)
    piInfo,          \* store: piInfo
    installationId,  \* store: installationId (0 is null)
    logs,            \* store: logs (parity of the number of lines written)
    sdSelection,     \* SDSelection: sdCards, loading, confirmed
    flashProgress,   \* the mounted FlashProgress instance (id 0: none)
    flashTasks,      \* every startFlashing call of the session
    flashedKey,      \* public key injected by the last flash_sd_card that succeeded (0: none)
    waitingPi,       \* the mounted WaitingPi instance and its discovery effect
    lookups,         \* discover_pi calls outstanding (a bag)
    configProgress,  \* the mounted ConfigProgress instance (id 0: none)
    installTasks,    \* every runConfiguration call of the session
    jellyfinAuth,    \* store: jellyfinAuth (0 is null, k what the k-th install run issued)
    events,          \* 'flash-progress' events emitted and not yet handled, oldest first
    storage,         \* localStorage, key jellysetup-storage-v5: the persisted snapshot
    piAddress,       \* the address the Pi holds on the network now
    lastListed,      \* what the last list_sd_cards call of the session returned
                     \* (none has returned yet: no device)
    servicesView     \* the mounted ServicesView instance and its scan effect

vars == << step, flowMode, permission, config, selectedSD,
           sshCredentials, piInfo, installationId, logs, sdSelection,
           flashProgress, flashTasks, flashedKey, waitingPi, lookups,
           configProgress, installTasks, jellyfinAuth, events, storage,
           piAddress, lastListed, servicesView >>

storeVars == << config, selectedSD, sshCredentials, piInfo, installationId >>
eventVars == << jellyfinAuth, events, piAddress, lastListed, servicesView >>

NoSdSelection == [sdCards |-> {}, loading |-> FALSE, confirmed |-> FALSE]

\* no ServicesView is mounted
NoServicesView ==
    [mounted |-> FALSE, searching |-> FALSE, attempts |-> 0, foundPis |-> {},
     currentAttempt |-> 0, pc |-> "none", host |-> 0]

\* FlashProgress: the stages displayed, in order
flashSteps == <<"download", "write", "configure", "eject">>
\* ConfigProgress: const steps = [...]
steps == <<"Connexion SSH", "Mise a jour", "Docker", "Reboot", "Structure",
           "Docker Compose", "Services", "Configuration", "Finalisation">>
\* ConfigProgress: const stepMap
stepMap == [update |-> 1, docker |-> 2, reboot |-> 3, structure |-> 4,
            compose_write |-> 5, compose_up |-> 6, wait_services |-> 7,
            config |-> 8, complete |-> 8]

\* useState of FlashProgress: every stage pending, progress 0
AllPending == [k \in 1 .. Len(flashSteps) |-> "pending"]
AllComplete == [k \in 1 .. Len(flashSteps) |-> "complete"]
NoFlashProgress ==
    [id |-> 0, hasStarted |-> FALSE, error |-> FALSE, listening |-> FALSE,
     reran |-> FALSE, progress |-> 0, steps |-> AllPending]
\* useState of ConfigProgress: currentStep 0, progress 0
NoConfigProgress ==
    [id |-> 0, hasStarted |-> FALSE, error |-> FALSE, listening |-> FALSE,
     reran |-> FALSE, progress |-> 0, currentStep |-> 0]
NoWaitingPi == [mounted |-> FALSE, attempts |-> 0, manualMode |-> FALSE,
                manualInput |-> Empty, currentAttempt |-> 0]

\* addLog, n times
addLog(l, n) == (l + n) % 2

\* ------------------------------------------------------ the persisted store
\* the state of useStore (the fields the wizard writes)
StoreState ==
    [config |-> config, selectedSD |-> selectedSD, sshCredentials |-> sshCredentials,
     piInfo |-> piInfo, installationId |-> installationId,
     jellyfinAuth |-> jellyfinAuth, logs |-> logs]

\* persist without partialize: the whole state is written
partializeNothing(state) == state

\* persist(..., { partialize: (state) => ({ config, selectedSD }) })
partialize(state) == [config |-> state.config, selectedSD |-> state.selectedSD]

\* the persist middleware: every set() that changes the state writes
\* partialize(state) under the storage key
Persist ==
    storage' = IF StoreState' = StoreState THEN storage ELSE partialize(StoreState')

\* ----------------------------------------------------------- discover_pi
\* an automatic attempt started by doSearch; stale is the cancelled flag of
\* the effect that started it
AutoLookup(h) == [auto |-> TRUE, stale |-> FALSE, hostname |-> h, cfgHostname |-> Empty]
\* an attempt started by handleManualConnect; cfgHostname is config.hostname
\* as the handler's closure sees it (the handler has no cancelled flag)
ManualLookup(h, c) == [auto |-> FALSE, stale |-> FALSE, hostname |-> h, cfgHostname |-> c]

BagAdd(b, r) == b (+) SetToBag({r})
BagRemove(b, r) == b (-) SetToBag({r})
BagCount(b, r) == IF r \in BagToSet(b) THEN b[r] ELSE 0

\* the bag b with every call c replaced by F[c]
BagMap(b, F) ==
    LET S == { F[r] : r \in BagToSet(b) }
        Pre(x) == { r \in BagToSet(b) : F[r] = x }
        RECURSIVE Sum(_)
        Sum(T) == IF T = {} THEN 0
                  ELSE LET r == CHOOSE r \in T : TRUE IN b[r] + Sum(T \ {r})
    IN  [x \in S |-> Sum(Pre(x))]

\* cleanup of the discovery effect: cancelled = true (clearInterval is the
\* loop no longer being the mounted, automatic one)
CancelLoop(b) ==
    BagMap(b, [r \in BagToSet(b) |-> IF r.auto THEN [r EXCEPT !.stale = TRUE] ELSE r])

\* WaitingPi unmounts: the effect is cleaned up
UnmountWaiting(b) == CancelLoop(b)

\* ------------------------------------------------------- mounting a step
\* a latch that is found set by the instance that has just mounted
FlashLatchOutlivesMount(hasStarted) == hasStarted

\* FlashProgress latch: the mount effect starts the flash only when the ref
\* is still false
FlashShouldStart(hasStarted) == ~hasStarted

\* ConfigProgress latch of the start effect
ConfigShouldStart(hasStarted) == ~hasStarted

\* a private key as a call receives it: key 0 is the empty string
NoBlob == [key |-> 0, encrypted |-> FALSE]
\* sshCredentials?.privateKey || '' : the key as generate_ssh_keys returned it
PrivateKeyOrEmpty(creds) == [key |-> creds, encrypted |-> FALSE]

\* startFlashing up to its first await: addLog, invoke generate_ssh_keys
NewFlashTask(inst, sd) ==
    [inst |-> inst, pc |-> "keygen", key |-> 0, sd |-> sd, stage |-> 0, percent |-> 0]

\* runConfiguration up to its first await: usePassword = !sshCredentials,
\* then test_ssh_connection_password or test_ssh_connection on piInfo.ip;
\* sshOk is the value the test resolves to, saves the number of
\* save_to_supabase calls made
NewInstallTask(inst, creds, pinfo) ==
    [inst |-> inst, pc |-> "test", usePassword |-> (creds = 0), key |-> creds,
     host |-> pinfo.ip, sshOk |-> "none", saves |-> 0, piName |-> pinfo.hostname,
     saved |-> NoBlob, stage |-> 0, percent |-> 0, conn |-> "up", waited |-> 0]

\* a task that has returned: nothing of its closure is left
Ended(t) ==
    [t EXCEPT !.pc = "ended", !.usePassword = FALSE, !.key = 0, !.host = Empty,
              !.sshOk = "none", !.saves = 0, !.piName = Empty, !.saved = NoBlob,
              !.stage = 0, !.percent = 0, !.conn = "up", !.waited = 0]

\* lines runConfiguration logs before its first await
InstallStartLogs(creds) == IF creds = 0 THEN 2 ELSE 1

\* setStep(new) followed by React's commit: the component of the old step
\* unmounts (its effects are cleaned up), the component of the new step
\* mounts and runs its mount effects.  ft, it, lk, lg, creds, pinfo, cfg and
\* flow are the values the handler has produced before the commit.
Nav(new, ft, it, lk, lg, creds, pinfo, cfg, flow) ==
    LET changed == new # step
        lk1 == IF changed /\ step = "waiting" THEN UnmountWaiting(lk) ELSE lk
        toFlash == changed /\ new = "flash"
        toWaiting == changed /\ new = "waiting"
        toConfigure == changed /\ new = "configure"
    IN  /\ toFlash => Len(ft) < MaxFlashRuns
        /\ toConfigure => Len(it) < MaxInstallRuns
        /\ toWaiting => BagCardinality(lk1) < MaxLookups
        /\ step' = new
        /\ sdSelection' =
             IF ~changed THEN sdSelection
             ELSE IF new = "sd-selection"
                  THEN [sdCards |-> {}, loading |-> TRUE, confirmed |-> FALSE]
                  ELSE NoSdSelection
        /\ flashProgress' =
             IF ~changed THEN flashProgress
             ELSE IF toFlash
                  THEN [NoFlashProgress EXCEPT !.id = Len(ft) + 1,
                          !.hasStarted = TRUE, !.listening = TRUE]
                  ELSE NoFlashProgress
        /\ flashTasks' =
             IF toFlash /\ FlashShouldStart(FALSE)
             THEN Append(ft, NewFlashTask(Len(ft) + 1, selectedSD))
             ELSE ft
        /\ waitingPi' =
             IF ~changed THEN waitingPi
             ELSE IF toWaiting
                  THEN [mounted |-> TRUE, attempts |-> 1, manualMode |-> FALSE,
                        manualInput |-> Empty, currentAttempt |-> 1]
                  ELSE NoWaitingPi
        /\ lookups' =
             IF toWaiting THEN BagAdd(lk1, AutoLookup(OrDefault(cfg.hostname))) ELSE lk1
        /\ configProgress' =
             IF ~changed THEN configProgress
             ELSE IF toConfigure
                  THEN [NoConfigProgress EXCEPT !.id = Len(it) + 1,
                          !.hasStarted = TRUE, !.listening = TRUE]
                  ELSE NoConfigProgress
        /\ installTasks' =
             IF toConfigure /\ ConfigShouldStart(FALSE)
             THEN Append(it, NewInstallTask(Len(it) + 1, creds, pinfo))
             ELSE it
        /\ logs' =
             IF toFlash THEN addLog(lg, 1)
             ELSE IF toWaiting THEN addLog(lg, 1)
             ELSE IF toConfigure THEN addLog(lg, InstallStartLogs(creds))
             ELSE lg

\* a handler that only navigates
Go(new) == Nav(new, flashTasks, installTasks, lookups, logs, sshCredentials,
               piInfo, config, flowMode)

\* ---------------------------------------------------------------- Init
Init ==
    /\ step = "permission"
    /\ flowMode = "full"
    /\ permission \in {"skip", "checking"}
    /\ config = [hostname |-> JellyPi, filled |-> FALSE]
    /\ selectedSD \in Devices \cup {0}
    /\ sshCredentials = 0
    /\ piInfo = NoPi
    /\ installationId = 0
    /\ logs = 0
    /\ sdSelection = NoSdSelection
    /\ flashProgress = NoFlashProgress
    /\ flashTasks = <<>>
    /\ flashedKey = 0
    /\ waitingPi = NoWaitingPi
    /\ lookups = EmptyBag
    /\ configProgress = NoConfigProgress
    /\ installTasks = <<>>
    /\ jellyfinAuth = 0
    /\ events = <<>>
    /\ storage = partialize(StoreState)
    /\ piAddress = PiAddr
    /\ lastListed = {}
    /\ servicesView = NoServicesView


\* ------------------------------------------------------- PermissionCheck
\* checkPermission after await invoke('check_disk_access'): r is the value
\* returned ("true", "false"), or "throw"
CheckDiskAccessReturns(r) ==
    /\ permission = "checking"
    /\ permission' = IF r = "true" THEN "timer" ELSE "denied"
    /\ UNCHANGED << step, flowMode, storeVars, logs, sdSelection,
                    flashProgress, flashTasks, flashedKey, waitingPi, lookups,
                    configProgress, installTasks >>
    /\ UNCHANGED eventVars
    /\ Persist

\* a timer that was armed whatever the check returned
OnGrantedAnyway ==
    /\ permission \in {"skip", "timer", "denied"}
    /\ permission' = "done"
    /\ Go("menu")
    /\ UNCHANGED << flowMode, storeVars, flashedKey >>
    /\ UNCHANGED eventVars
    /\ Persist

\* setTimeout(onGranted, 500) fires: onGranted = () => setStep('menu')
OnGranted ==
    /\ permission \in {"skip", "timer"}
    /\ permission' = "done"
    /\ Go("menu")
    /\ UNCHANGED << flowMode, storeVars, flashedKey >>
    /\ UNCHANGED eventVars
    /\ Persist

\* ---------------------------------------------------------------- MainMenu
OnNewSetup ==
    /\ step = "menu"
    /\ flowMode' = "full"
    /\ Go("welcome")
    /\ UNCHANGED << permission, storeVars, flashedKey >>
    /\ UNCHANGED eventVars
    /\ Persist

OnConnectExisting ==
    /\ step = "menu"
    /\ flowMode' = "connect"
    /\ Go("quick-connect")
    /\ UNCHANGED << permission, storeVars, flashedKey >>
    /\ UNCHANGED eventVars
    /\ Persist

OnReconfigure ==
    /\ step = "menu"
    /\ flowMode' = "connect"
    /\ Go("quick-connect")
    /\ UNCHANGED << permission, storeVars, flashedKey >>
    /\ UNCHANGED eventVars
    /\ Persist

\* ----------------------------------------------------------------- Welcome
WelcomeNext ==
    /\ step = "welcome"
    /\ Go("sd-selection")
    /\ UNCHANGED << flowMode, permission, storeVars, flashedKey >>
    /\ UNCHANGED eventVars
    /\ Persist

\* ------------------------------------------------------------- SDSelection
\* loadSDCards after await invoke('list_sd_cards'): cards is the list
\* returned when ok, and the call throws otherwise
ListSdCardsReturns(ok, cards) ==
    /\ step = "sd-selection"
    /\ sdSelection.loading
    /\ sdSelection' = [sdSelection EXCEPT
                         !.sdCards = IF ok THEN cards ELSE @,
                         !.loading = FALSE]
    /\ lastListed' = IF ok THEN cards ELSE lastListed
    /\ UNCHANGED << step, flowMode, permission, storeVars, logs,
                    flashProgress, flashTasks, flashedKey, waitingPi, lookups,
                    configProgress, installTasks >>
    /\ UNCHANGED << jellyfinAuth, events, piAddress, servicesView >>
    /\ Persist

\* the Actualiser button (disabled while loading)
RefreshSdCards ==
    /\ step = "sd-selection"
    /\ ~sdSelection.loading
    /\ sdSelection' = [sdSelection EXCEPT !.loading = TRUE]
    /\ UNCHANGED << step, flowMode, permission, storeVars, logs,
                    flashProgress, flashTasks, flashedKey, waitingPi, lookups,
                    configProgress, installTasks >>
    /\ UNCHANGED eventVars
    /\ Persist

\* a click that selects the card and leaves the confirmation as it is
SelectCardKeepsConfirmed(card) ==
    /\ step = "sd-selection"
    /\ ~sdSelection.loading
    /\ card \in sdSelection.sdCards
    /\ selectedSD' = card
    /\ UNCHANGED << step, flowMode, permission, config,
                    sshCredentials, piInfo, installationId, logs, sdSelection,
                    flashProgress, flashTasks, flashedKey, waitingPi, lookups,
                    configProgress, installTasks >>
    /\ UNCHANGED eventVars
    /\ Persist

\* click on a listed card: setSelectedSD(card); setConfirmed(false)
SelectCard(card) ==
    /\ step = "sd-selection"
    /\ ~sdSelection.loading
    /\ card \in sdSelection.sdCards
    /\ selectedSD' = card
    /\ sdSelection' = [sdSelection EXCEPT !.confirmed = FALSE]
    /\ UNCHANGED << step, flowMode, permission, config,
                    sshCredentials, piInfo, installationId, logs,
                    flashProgress, flashTasks, flashedKey, waitingPi, lookups,
                    configProgress, installTasks >>
    /\ UNCHANGED eventVars
    /\ Persist

\* the confirmation checkbox, rendered when selectedSD is set
SetConfirmed(b) ==
    /\ step = "sd-selection"
    /\ selectedSD # 0
    /\ sdSelection.confirmed # b
    /\ sdSelection' = [sdSelection EXCEPT !.confirmed = b]
    /\ UNCHANGED << step, flowMode, permission, storeVars, logs,
                    flashProgress, flashTasks, flashedKey, waitingPi, lookups,
                    configProgress, installTasks >>
    /\ UNCHANGED eventVars
    /\ Persist

\* handleNext: if (selectedSD && confirmed) onNext()
SdHandleNext ==
    /\ step = "sd-selection"
    /\ selectedSD # 0 /\ sdSelection.confirmed
    /\ Go("config")
    /\ UNCHANGED << flowMode, permission, storeVars, flashedKey >>
    /\ UNCHANGED eventVars
    /\ Persist

SdOnBack ==
    /\ step = "sd-selection"
    /\ Go("menu")
    /\ UNCHANGED << flowMode, permission, storeVars, flashedKey >>
    /\ UNCHANGED eventVars
    /\ Persist

\* ------------------------------------------------ ConfigForm, QuickConnect
\* onConfigChange = setConfig: the user edits a field of either form
OnConfigChange(c) ==
    /\ step \in {"config", "quick-connect"}
    /\ c # config
    /\ config' = c
    /\ UNCHANGED << step, flowMode, permission, selectedSD,
                    sshCredentials, piInfo, installationId, logs, sdSelection,
                    flashProgress, flashTasks, flashedKey, waitingPi, lookups,
                    configProgress, installTasks >>
    /\ UNCHANGED eventVars
    /\ Persist

\* ConfigForm validate(): every required field is filled
validate(c) == trim(c.hostname) # Empty /\ c.filled

\* ConfigForm handleNext: if (validate()) onNext()
ConfigFormNext ==
    /\ step = "config"
    /\ validate(config)
    /\ Go("flash")
    /\ UNCHANGED << flowMode, permission, storeVars, flashedKey >>
    /\ UNCHANGED eventVars
    /\ Persist

ConfigFormBack ==
    /\ step = "config"
    /\ Go("sd-selection")
    /\ UNCHANGED << flowMode, permission, storeVars, flashedKey >>
    /\ UNCHANGED eventVars
    /\ Persist

QuickConnectNext ==
    /\ step = "quick-connect"
    /\ Go("waiting")
    /\ UNCHANGED << flowMode, permission, storeVars, flashedKey >>
    /\ UNCHANGED eventVars
    /\ Persist

QuickConnectBack ==
    /\ step = "quick-connect"
    /\ Go("menu")
    /\ UNCHANGED << flowMode, permission, storeVars, flashedKey >>
    /\ UNCHANGED eventVars
    /\ Persist


\* ----------------------------------------------------------- FlashProgress
\* setError(...) reaches the component only while the instance that started
\* the task is the mounted one
SetError(progress, inst) ==
    IF progress.id = inst /\ inst # 0 THEN [progress EXCEPT !.error = TRUE] ELSE progress

\* React runs the mount effect's cleanup and then the effect again on the
\* same instance (StrictMode, Fast Refresh): the cleanup unlistens, the
\* effect returns early when the latch is set, before listen() is reached
FlashEffectRerun ==
    /\ flashProgress.id # 0
    /\ ~flashProgress.reran
    /\ IF FlashShouldStart(flashProgress.hasStarted)
       THEN /\ Len(flashTasks) < MaxFlashRuns
            /\ flashTasks' = Append(flashTasks, NewFlashTask(flashProgress.id, selectedSD))
            /\ flashProgress' = [flashProgress EXCEPT !.hasStarted = TRUE,
                                   !.listening = TRUE, !.reran = TRUE]
            /\ logs' = addLog(logs, 1)
       ELSE /\ flashProgress' = [flashProgress EXCEPT !.listening = FALSE, !.reran = TRUE]
            /\ UNCHANGED << flashTasks, logs >>
    /\ UNCHANGED << step, flowMode, permission, storeVars,
                    sdSelection, flashedKey, waitingPi, lookups,
                    configProgress, installTasks >>
    /\ UNCHANGED eventVars
    /\ Persist

\* a startFlashing call that has returned: nothing of its closure is left
FlashEnded(t) ==
    [t EXCEPT !.pc = "ended", !.key = 0, !.sd = 0, !.stage = 0, !.percent = 0]

\* a catch block that starts the run over instead of returning
FlashRejectedRetries(t) == [t EXCEPT !.pc = "keygen", !.key = 0]

\* startFlashing, catch block: setError, addLog, and the call returns
FlashRejected(t) == FlashEnded(t)

\* startFlashing after await invoke('generate_ssh_keys'): the keypair is
\* stored, then flash_sd_card is invoked with selectedSD!.path
FlashKeysGenerated(t, k) ==
    IF t.sd = 0 THEN FlashRejected(t)
    ELSE [t EXCEPT !.key = k, !.pc = "flashing"]

GenerateKeysReturns(i, ok) ==
    /\ i \in 1 .. Len(flashTasks)
    /\ flashTasks[i].pc = "keygen"
    /\ LET t == flashTasks[i]
           t2 == IF ok THEN FlashKeysGenerated(t, i) ELSE FlashRejected(t)
       IN  /\ flashTasks' = [flashTasks EXCEPT ![i] = t2]
           /\ sshCredentials' = IF ok THEN i ELSE sshCredentials
           /\ flashProgress' = IF t2.pc = "ended" THEN SetError(flashProgress, t.inst)
                               ELSE flashProgress
           /\ logs' = IF t2.pc = "ended" THEN addLog(logs, 1) ELSE logs
    /\ UNCHANGED << step, flowMode, permission, config, selectedSD,
                    piInfo, installationId, sdSelection, flashedKey, waitingPi,
                    lookups, configProgress, installTasks >>
    /\ UNCHANGED eventVars
    /\ Persist

\* setSteps(all complete); setProgress(100): reaches the component only
\* while the instance that started the task is the mounted one
FlashDone(progress, inst) ==
    IF progress.id = inst /\ inst # 0
    THEN [progress EXCEPT !.steps = AllComplete, !.progress = 100]
    ELSE progress

\* startFlashing after await invoke('flash_sd_card'): on success the stages
\* are completed and setTimeout(onComplete, 1500) is armed
FlashSdCardReturns(i, ok) ==
    /\ i \in 1 .. Len(flashTasks)
    /\ flashTasks[i].pc = "flashing"
    /\ LET t == flashTasks[i]
       IN  IF ok
           THEN /\ flashTasks' = [flashTasks EXCEPT ![i] = [t EXCEPT !.pc = "timer"]]
                /\ flashedKey' = t.key
                /\ flashProgress' = FlashDone(flashProgress, t.inst)
                /\ UNCHANGED logs
           ELSE /\ flashTasks' = [flashTasks EXCEPT ![i] = FlashRejected(t)]
                /\ flashProgress' = SetError(flashProgress, t.inst)
                /\ logs' = addLog(logs, 1)
                /\ UNCHANGED flashedKey
    /\ UNCHANGED << step, flowMode, permission, storeVars,
                    sdSelection, waitingPi, lookups, configProgress, installTasks >>
    /\ UNCHANGED eventVars
    /\ Persist

\* the timer fires: onComplete = () => setStep('waiting')
FlashOnComplete(i) ==
    /\ i \in 1 .. Len(flashTasks)
    /\ flashTasks[i].pc = "timer"
    /\ Nav("waiting", [flashTasks EXCEPT ![i] = FlashEnded(@)],
           installTasks, lookups, logs, sshCredentials, piInfo, config, flowMode)
    /\ UNCHANGED << flowMode, permission, storeVars, flashedKey >>
    /\ UNCHANGED eventVars
    /\ Persist

\* the Reessayer button of the error view: onError = () => setStep('sd-selection')
FlashOnError ==
    /\ flashProgress.id # 0
    /\ flashProgress.error
    /\ Go("sd-selection")
    /\ UNCHANGED << flowMode, permission, storeVars, flashedKey >>
    /\ UNCHANGED eventVars
    /\ Persist


\* --------------------------------------------------------------- WaitingPi
\* App: onPiFound = (info) => { setPiInfo(info); setStep('configure') },
\* called with the lookups lk and the log lg the caller has produced
onPiFound(info, lk, lg, cfg) ==
    /\ piInfo' = info
    /\ Nav("configure", flashTasks, installTasks, lk, lg, sshCredentials, info,
           cfg, flowMode)

\* what discover_pi resolves to when it finds the device asked for
Found(r) == [ip |-> piAddress, hostname |-> r.hostname]

\* doSearch, run by setInterval every 8 s while the effect is live,
\* whether or not the attempt before has returned; the loop is followed for
\* cap attempts, with at most most calls outstanding
IntervalTickWithin(cap, most) ==
    /\ waitingPi.mounted
    /\ ~waitingPi.manualMode
    /\ waitingPi.currentAttempt < cap
    /\ BagCardinality(lookups) < most
    /\ waitingPi' = [waitingPi EXCEPT !.currentAttempt = @ + 1,
                                      !.attempts = waitingPi.currentAttempt + 1]
    /\ lookups' = BagAdd(lookups, AutoLookup(OrDefault(config.hostname)))
    /\ logs' = addLog(logs, 1)
    /\ UNCHANGED << step, flowMode, permission, storeVars,
                    sdSelection, flashProgress, flashTasks, flashedKey,
                    configProgress, installTasks >>
    /\ UNCHANGED eventVars
    /\ Persist

\* the loop as the sessions of the wizard follow it
IntervalTick(cap) == IntervalTickWithin(cap, MaxLookups)

\* a loop that drops every answer
AttemptAlwaysDiscarded(r) == TRUE

\* doSearch after the await, inside try: if (cancelled) return
AttemptDiscarded(r) == r.stale

\* a loop that falls back to manual entry on the first miss
MissEndsLoop(w) == [w EXCEPT !.manualMode = TRUE]

\* doSearch, else branch and catch block: a line is logged, and neither the
\* state of the component nor its interval is touched
AfterMiss(w) == w

\* doSearch after await invoke('discover_pi'): res is "found", "null" or "throw"
AutoDiscoverReturns(r, res) ==
    /\ r \in BagToSet(lookups)
    /\ r.auto
    /\ LET lk == BagRemove(lookups, r)
       IN  IF res = "throw"
           THEN /\ lookups' = lk
                /\ logs' = addLog(logs, 1)
                /\ waitingPi' = AfterMiss(waitingPi)
                /\ UNCHANGED << step, piInfo, sdSelection, flashProgress, flashTasks,
                                configProgress, installTasks >>
           ELSE IF AttemptDiscarded(r)
           THEN /\ lookups' = lk
                /\ UNCHANGED << step, piInfo, logs, sdSelection, flashProgress,
                                flashTasks, waitingPi, configProgress, installTasks >>
           ELSE IF res = "found"
           THEN onPiFound(Found(r), lk, addLog(logs, 1), config)
           ELSE /\ lookups' = lk
                /\ logs' = addLog(logs, 1)
                /\ waitingPi' = AfterMiss(waitingPi)
                /\ UNCHANGED << step, piInfo, sdSelection, flashProgress, flashTasks,
                                configProgress, installTasks >>
    /\ UNCHANGED << flowMode, permission, config, selectedSD,
                    sshCredentials, installationId, flashedKey >>
    /\ UNCHANGED eventVars
    /\ Persist

\* the manual-mode button: setManualMode(true); the effect's cleanup runs
SetManualMode ==
    /\ waitingPi.mounted
    /\ ~waitingPi.manualMode
    /\ waitingPi' = [waitingPi EXCEPT !.manualMode = TRUE]
    /\ lookups' = CancelLoop(lookups)
    /\ UNCHANGED << step, flowMode, permission, storeVars, logs,
                    sdSelection, flashProgress, flashTasks, flashedKey,
                    configProgress, installTasks >>
    /\ UNCHANGED eventVars
    /\ Persist

\* "Reprendre la recherche automatique": setManualMode(false); setAttempts(0);
\* the effect runs again and calls doSearch at once
ResumeAuto ==
    /\ waitingPi.mounted
    /\ waitingPi.manualMode
    /\ BagCardinality(lookups) < MaxLookups
    /\ waitingPi' = [waitingPi EXCEPT !.manualMode = FALSE, !.attempts = 1,
                                      !.currentAttempt = 1]
    /\ lookups' = BagAdd(lookups, AutoLookup(OrDefault(config.hostname)))
    /\ logs' = addLog(logs, 1)
    /\ UNCHANGED << step, flowMode, permission, storeVars,
                    sdSelection, flashProgress, flashTasks, flashedKey,
                    configProgress, installTasks >>
    /\ UNCHANGED eventVars
    /\ Persist

\* the manual field: onChange = setManualInput(e.target.value)
SetManualInput(text) ==
    /\ waitingPi.mounted
    /\ waitingPi.manualMode
    /\ waitingPi.manualInput # text
    /\ waitingPi' = [waitingPi EXCEPT !.manualInput = text]
    /\ UNCHANGED << step, flowMode, permission, storeVars, logs, sdSelection,
                    flashProgress, flashTasks, flashedKey, lookups,
                    configProgress, installTasks >>
    /\ UNCHANGED eventVars
    /\ Persist

\* handleManualConnect up to its first await (inputError, a message shown
\* under the field, is not kept)
handleManualConnect ==
    /\ waitingPi.mounted
    /\ waitingPi.manualMode
    /\ LET input == trim(waitingPi.manualInput)
           hostname == IF isIP(input) THEN input ELSE replaceLocal(input)
       IN  IF input = Empty
           THEN UNCHANGED << step, piInfo, logs, lookups, sdSelection,
                             flashProgress, flashTasks, waitingPi, configProgress,
                             installTasks >>
           ELSE IF isIP(input)
           THEN onPiFound([ip |-> input, hostname |-> hostname], lookups,
                          addLog(logs, 2), config)
           ELSE /\ BagCardinality(lookups) < MaxLookups
                /\ lookups' = BagAdd(lookups, ManualLookup(hostname, config.hostname))
                /\ logs' = addLog(logs, 1)
                /\ UNCHANGED << step, piInfo, sdSelection, flashProgress, flashTasks,
                                waitingPi, configProgress, installTasks >>
    /\ UNCHANGED << flowMode, permission, config, selectedSD,
                    sshCredentials, installationId, flashedKey >>
    /\ UNCHANGED eventVars
    /\ Persist

\* handleManualConnect after await invoke('discover_pi')
ManualDiscoverReturns(r, res) ==
    /\ r \in BagToSet(lookups)
    /\ ~r.auto
    /\ LET lk == BagRemove(lookups, r)
           cfg == IF r.hostname # r.cfgHostname
                  THEN [config EXCEPT !.hostname = r.hostname] ELSE config
       IN  IF res = "found"
           THEN /\ config' = cfg
                /\ onPiFound(Found(r), lk, addLog(logs, 1), cfg)
           ELSE /\ lookups' = lk
                /\ UNCHANGED << step, piInfo, config, logs, sdSelection,
                                flashProgress, flashTasks, waitingPi,
                                configProgress, installTasks >>
    /\ UNCHANGED << flowMode, permission, selectedSD,
                    sshCredentials, installationId, flashedKey >>
    /\ UNCHANGED eventVars
    /\ Persist

\* App: onBack of the waiting step
WaitingOnBack ==
    /\ step = "waiting"
    /\ Go(IF flowMode = "connect" THEN "quick-connect" ELSE "sd-selection")
    /\ UNCHANGED << flowMode, permission, storeVars, flashedKey >>
    /\ UNCHANGED eventVars
    /\ Persist

\* the Reessayer button, rendered when !manualMode && attempts >= maxAttempts
RetryAttempts ==
    /\ waitingPi.mounted
    /\ ~waitingPi.manualMode
    /\ waitingPi.attempts >= maxAttempts
    /\ waitingPi' = [waitingPi EXCEPT !.attempts = 0]
    /\ UNCHANGED << step, flowMode, permission, storeVars, logs,
                    sdSelection, flashProgress, flashTasks, flashedKey, lookups,
                    configProgress, installTasks >>
    /\ UNCHANGED eventVars
    /\ Persist


\* ---------------------------------------------------------- ConfigProgress
\* React re-runs both mount effects on the same instance: the listener is
\* unregistered and registered again, the start effect returns early when
\* the latch is set
ConfigEffectRerun ==
    /\ configProgress.id # 0
    /\ ~configProgress.reran
    /\ configProgress' = [configProgress EXCEPT !.hasStarted = TRUE,
                            !.listening = TRUE, !.reran = TRUE]
    /\ IF ConfigShouldStart(configProgress.hasStarted)
       THEN /\ Len(installTasks) < MaxInstallRuns
            /\ piInfo # NoPi
            /\ installTasks' = Append(installTasks,
                   NewInstallTask(configProgress.id, sshCredentials, piInfo))
            /\ logs' = addLog(logs, InstallStartLogs(sshCredentials))
       ELSE UNCHANGED << installTasks, logs >>
    /\ UNCHANGED << step, flowMode, permission, storeVars,
                    sdSelection, flashProgress, flashTasks, flashedKey,
                    waitingPi, lookups >>
    /\ UNCHANGED eventVars
    /\ Persist

\* a catch block that reports success: setTimeout(onComplete, 1500)
InstallRejectedCompletes(t) == [t EXCEPT !.pc = "timer"]

\* runConfiguration, catch block: setError, addLog, and the call returns
InstallRejected(t) == Ended(t)

\* a test whose result is not looked at
TestPassedUnchecked(res) == res # "throw"

\* if (!sshOk) throw new Error(...): res is the value the test resolved to
\* ("true", "false"), or "throw"
TestPassed(res) == res = "true"

\* save_to_supabase called before the installation instead of after it
AfterTestSavesFirst(t, res) ==
    IF TestPassed(res) THEN [t EXCEPT !.pc = "install", !.sshOk = res, !.saves = @ + 1]
    ELSE InstallRejected(t)

\* runConfiguration after the connection test: run_installation_password or
\* run_installation is invoked only when the test passed
AfterTest(t, res) ==
    IF TestPassed(res) THEN [t EXCEPT !.pc = "install", !.sshOk = res]
    ELSE InstallRejected(t)

\* an installation whose failure is not looked at
AfterInstallIgnoresFailure(t, ok) ==
    [t EXCEPT !.pc = "save", !.saves = @ + 1, !.saved = PrivateKeyOrEmpty(t.key)]

\* runConfiguration after await invoke('run_installation...'): on success
\* save_to_supabase is invoked
AfterInstall(t, ok) ==
    IF ok THEN [t EXCEPT !.pc = "save", !.saves = @ + 1,
                         !.saved = PrivateKeyOrEmpty(t.key)]
    ELSE InstallRejected(t)

\* runConfiguration after await invoke('save_to_supabase'): on success
\* setTimeout(onComplete, 1500) is armed
AfterSave(t, ok) ==
    IF ok THEN [t EXCEPT !.pc = "timer"] ELSE InstallRejected(t)

\* what runConfiguration sets on its component after an await that
\* resolved, pc being the await it goes to next: setCurrentStep(1) and
\* setProgress(12) after the test, setCurrentStep(steps.length - 1) and
\* setProgress(100) after the installation, setProgress(100) after the save
InstallShown(progress, inst, pc) ==
    IF progress.id # inst \/ inst = 0 THEN progress
    ELSE IF pc = "install" THEN [progress EXCEPT !.currentStep = 1, !.progress = 12]
    ELSE IF pc = "save" THEN [progress EXCEPT !.currentStep = Len(steps) - 1,
                                              !.progress = 100]
    ELSE [progress EXCEPT !.progress = 100]

\* one await of runConfiguration resolves or rejects; from is the await the
\* task stands at and t2 the task after it
InstallStep(i, from, t2) ==
    /\ i \in 1 .. Len(installTasks)
    /\ installTasks[i].pc = from
    /\ installTasks' = [installTasks EXCEPT ![i] = t2]
    /\ configProgress' = IF t2.pc = "ended"
                         THEN SetError(configProgress, installTasks[i].inst)
                         ELSE InstallShown(configProgress, installTasks[i].inst, t2.pc)
    /\ logs' = IF t2.pc = "ended" THEN addLog(logs, 1) ELSE logs
    /\ UNCHANGED << step, flowMode, permission, config, selectedSD,
                    sshCredentials, piInfo, sdSelection, flashProgress,
                    flashTasks, flashedKey, waitingPi, lookups >>

TestConnectionReturns(i, res) ==
    /\ i \in 1 .. Len(installTasks)
    /\ InstallStep(i, "test", AfterTest(installTasks[i], res))
    /\ UNCHANGED installationId
    /\ UNCHANGED eventVars
    /\ Persist

RunInstallationReturns(i, ok) ==
    /\ i \in 1 .. Len(installTasks)
    /\ InstallStep(i, "install", AfterInstall(installTasks[i], ok))
    /\ UNCHANGED installationId
    /\ UNCHANGED eventVars
    /\ Persist

\* setInstallationId(installId): 1 stands for the id returned
SaveToSupabaseReturns(i, ok) ==
    /\ i \in 1 .. Len(installTasks)
    /\ InstallStep(i, "save", AfterSave(installTasks[i], ok))
    /\ installationId' = IF ok THEN 1 ELSE installationId
    /\ UNCHANGED eventVars
    /\ Persist

\* the timer fires: onComplete = () => setStep('complete')
ConfigOnComplete(i) ==
    /\ i \in 1 .. Len(installTasks)
    /\ installTasks[i].pc = "timer"
    /\ Nav("complete", flashTasks, [installTasks EXCEPT ![i] = Ended(@)],
           lookups, logs, sshCredentials, piInfo, config, flowMode)
    /\ UNCHANGED << flowMode, permission, storeVars, flashedKey >>
    /\ UNCHANGED eventVars
    /\ Persist

\* the Reessayer button of the error view: onError = () => setStep('waiting')
ConfigOnError ==
    /\ configProgress.id # 0
    /\ configProgress.error
    /\ Go("waiting")
    /\ UNCHANGED << flowMode, permission, storeVars, flashedKey >>
    /\ UNCHANGED eventVars
    /\ Persist

\* ---------------------------------------------------------------- Complete
\* App: onRestart resets part of the config and piInfo, then setStep('menu')
OnRestart ==
    /\ step = "complete"
    /\ config' = [hostname |-> JellyPi, filled |-> FALSE]
    /\ piInfo' = NoPi
    /\ Nav("menu", flashTasks, installTasks, lookups, logs, sshCredentials, NoPi,
           [hostname |-> JellyPi, filled |-> FALSE], flowMode)
    /\ UNCHANGED << flowMode, permission, selectedSD,
                    sshCredentials, installationId, flashedKey >>
    /\ UNCHANGED eventVars
    /\ Persist

\* ------------------------------------------------------------ specification
\* what discover_pi can come back with
Outcomes == {"found", "null", "throw"}
\* what a call returning a boolean can come back with
Results == {"true", "false", "throw"}

Permission ==
    \/ \E r \in Results : CheckDiskAccessReturns(r)
    \/ OnGranted

Menu ==
    \/ OnNewSetup
    \/ OnConnectExisting
    \/ OnReconfigure
    \/ WelcomeNext
    \/ OnRestart

SdSelect ==
    \/ \E ok \in BOOLEAN, attached \in SUBSET Storage :
           ListSdCardsReturns(ok, list_sd_cards(attached))
    \/ RefreshSdCards
    \/ \E card \in Storage : SelectCard(card)
    \/ \E b \in BOOLEAN : SetConfirmed(b)
    \/ SdHandleNext
    \/ SdOnBack

Forms ==
    \/ \E c \in [hostname : Hostnames, filled : {TRUE}] : OnConfigChange(c)
    \/ ConfigFormNext
    \/ ConfigFormBack
    \/ QuickConnectNext
    \/ QuickConnectBack

Flash ==
    \/ FlashEffectRerun
    \/ \E i \in 1 .. MaxFlashRuns, ok \in BOOLEAN : GenerateKeysReturns(i, ok)
    \/ \E i \in 1 .. MaxFlashRuns, ok \in BOOLEAN : FlashSdCardReturns(i, ok)
    \/ \E i \in 1 .. MaxFlashRuns : FlashOnComplete(i)
    \/ FlashOnError

Waiting ==
    \/ \E r \in BagToSet(lookups), res \in Outcomes : AutoDiscoverReturns(r, res)
    \/ SetManualMode
    \/ ResumeAuto
    \/ \E text \in ManualInputs : SetManualInput(text)
    \/ handleManualConnect
    \/ \E r \in BagToSet(lookups), res \in Outcomes : ManualDiscoverReturns(r, res)
    \/ WaitingOnBack

Configure ==
    \/ ConfigEffectRerun
    \/ \E i \in 1 .. MaxInstallRuns, res \in Results : TestConnectionReturns(i, res)
    \/ \E i \in 1 .. MaxInstallRuns, ok \in BOOLEAN : RunInstallationReturns(i, ok)
    \/ \E i \in 1 .. MaxInstallRuns, ok \in BOOLEAN : SaveToSupabaseReturns(i, ok)
    \/ \E i \in 1 .. MaxInstallRuns : ConfigOnComplete(i)
    \/ ConfigOnError

Next ==
    \/ Permission
    \/ Menu
    \/ SdSelect
    \/ Forms
    \/ Flash
    \/ IntervalTick(AttemptCap)
    \/ Waiting
    \/ Configure

Spec == Init /\ [][Next]_vars


\* -------------------------------------------------- the discovery loop alone
\* A fresh session in which the user has chosen "connect an existing Pi" and
\* pressed "Rechercher le Pi" without editing the form: WaitingPi has just
\* mounted and its first attempt is outstanding.
InitDiscovery ==
    /\ step = "waiting"
    /\ flowMode = "connect"
    /\ permission = "done"
    /\ config = [hostname |-> JellyPi, filled |-> FALSE]
    /\ selectedSD = 0
    /\ sshCredentials = 0
    /\ piInfo = NoPi
    /\ installationId = 0
    /\ logs = 1
    /\ sdSelection = NoSdSelection
    /\ flashProgress = NoFlashProgress
    /\ flashTasks = <<>>
    /\ flashedKey = 0
    /\ waitingPi = [mounted |-> TRUE, attempts |-> 1, manualMode |-> FALSE,
                    manualInput |-> Empty, currentAttempt |-> 1]
    /\ lookups = SetToBag({AutoLookup(JellyPi)})
    /\ configProgress = NoConfigProgress
    /\ installTasks = <<>>
    /\ jellyfinAuth = 0
    /\ events = <<>>
    /\ storage = partialize(StoreState)
    /\ piAddress = PiAddr
    /\ lastListed = {}
    /\ servicesView = NoServicesView

NextDiscovery ==
    \/ IntervalTick(LoopCap)
    \/ \E r \in BagToSet(lookups), res \in Outcomes : AutoDiscoverReturns(r, res)
    \/ SetManualMode
    \/ ResumeAuto
    \/ RetryAttempts

SpecDiscovery == InitDiscovery /\ [][NextDiscovery]_vars

\* InitDiscovery is a state of Spec (OnGranted, OnConnectExisting,
\* QuickConnectNext): as an invariant of Spec this is violated
DiscoveryStartUnreached == ~InitDiscovery


\* ------------------------------------------------- one flow of the wizard
\* A session in which the user only ever connects to a Pi that exists
\* already: menu, quick-connect, waiting, configure, complete, and again.
NextConnect ==
    \/ Permission
    \/ OnConnectExisting
    \/ OnReconfigure
    \/ \E c \in [hostname : Hostnames, filled : {TRUE}] : OnConfigChange(c)
    \/ QuickConnectNext
    \/ QuickConnectBack
    \/ IntervalTick(AttemptCap)
    \/ Waiting
    \/ Configure
    \/ OnRestart

SpecConnect == Init /\ [][NextConnect]_vars

\* A session in which the user only ever prepares a card: menu, welcome,
\* SD selection, form, flash, waiting, as often as wanted, followed until
\* the Pi is found (the connection test is then left outstanding).
NextSetup ==
    \/ Permission
    \/ OnNewSetup
    \/ WelcomeNext
    \/ SdSelect
    \/ \E c \in [hostname : Hostnames, filled : {TRUE}] : OnConfigChange(c)
    \/ ConfigFormNext
    \/ ConfigFormBack
    \/ Flash
    \/ IntervalTick(AttemptCap)
    \/ Waiting

SpecSetup == Init /\ [][NextSetup]_vars

\* ------------------------------------------------------ the progress channel
\* percentages a run may report
Percents == {10, 50, 100}

\* the stages of flash_sd_card, by the id its events carry, in order
FlashStages ==
    <<"download", "verify", "extract", "unmount", "write", "configure", "eject">>

\* the stages of run_installation, by the id its events carry, in order
InstallStages ==
    <<"connect", "update", "docker", "reboot", "structure", "compose_write",
      "compose_up", "wait_services", "config", "complete">>

\* the payload of a 'flash-progress' event (auth 0: no jellyfin_auth)
ProgressEvent(id, pct, auth) == [step |-> id, percent |-> pct, auth |-> auth]

\* every field of the model that no progress event touches
EventFrame ==
    UNCHANGED << step, flowMode, permission, storeVars, sdSelection, flashedKey,
                 waitingPi, lookups, lastListed, servicesView >>

\* flash_sd_card enters its next stage and reports it, never with a
\* percentage below the last one it reported
FlashEmits(i, pct) ==
    /\ i \in 1 .. Len(flashTasks)
    /\ flashTasks[i].pc = "flashing"
    /\ flashTasks[i].stage < Len(FlashStages)
    /\ pct >= flashTasks[i].percent
    /\ Len(events) < MaxEvents
    /\ flashTasks' = [flashTasks EXCEPT ![i].stage = @ + 1, ![i].percent = pct]
    /\ events' = Append(events,
                   ProgressEvent(FlashStages[flashTasks[i].stage + 1], pct, 0))
    /\ EventFrame
    /\ UNCHANGED << logs, flashProgress, configProgress, installTasks, jellyfinAuth,
                    piAddress >>
    /\ Persist

\* the stage of run_installation that yields the Jellyfin credentials: its
\* event carries them, no other event does
YieldsAuth(id) == id = "config"

\* run_installation enters its next stage and reports it, never with a
\* percentage below the last one it reported
InstallEmits(i, pct) ==
    /\ i \in 1 .. Len(installTasks)
    /\ installTasks[i].pc = "install"
    /\ installTasks[i].stage < Len(InstallStages)
    /\ pct >= installTasks[i].percent
    /\ installTasks[i].conn # "lost"
    /\ Len(events) < MaxEvents
    /\ installTasks' = [installTasks EXCEPT ![i].stage = @ + 1, ![i].percent = pct]
    /\ LET id == InstallStages[installTasks[i].stage + 1]
       IN  events' = Append(events,
                       ProgressEvent(id, pct, IF YieldsAuth(id) THEN i ELSE 0))
    /\ EventFrame
    /\ UNCHANGED << logs, flashProgress, configProgress, flashTasks, jellyfinAuth,
                    piAddress >>
    /\ Persist

\* prev.findIndex((x) => x.id === id): the position counted from 0, or -1
findIndex(list, id) ==
    IF \E k \in 1 .. Len(list) : list[k] = id
    THEN (CHOOSE k \in 1 .. Len(list) : list[k] = id) - 1
    ELSE -1

\* the listener of FlashProgress: setProgress(percent), and setSteps marks
\* the stage of the event active and the stages before it complete
FlashListener(progress, e) ==
    [progress EXCEPT
       !.progress = e.percent,
       !.steps = [k \in 1 .. Len(flashSteps) |->
                    IF flashSteps[k] = e.step THEN "active"
                    ELSE IF findIndex(flashSteps, e.step) > findIndex(flashSteps, flashSteps[k])
                         THEN "complete"
                         ELSE progress.steps[k]]]

\* the listener of ConfigProgress: setProgress(percent), and setCurrentStep
\* when stepMap knows the stage
ConfigListener(progress, e) ==
    [progress EXCEPT
       !.progress = e.percent,
       !.currentStep = IF e.step \in DOMAIN stepMap THEN stepMap[e.step] ELSE @]

\* a listener that stores whatever the event carries
AuthOverwritten(auth, e) == e.auth

\* if (jellyfin_auth) setJellyfinAuth(jellyfin_auth)
AuthKept(auth, e) == IF e.auth # 0 THEN e.auth ELSE auth

\* the oldest event is handed to the listener registered on 'flash-progress'
\* (both components listen on that name); without a listener it is dropped
HandleProgressEvent ==
    /\ events # <<>>
    /\ LET e == Head(events)
           toFlash == flashProgress.id # 0 /\ flashProgress.listening
           toConfig == configProgress.id # 0 /\ configProgress.listening
       IN  /\ flashProgress' = IF toFlash THEN FlashListener(flashProgress, e)
                               ELSE flashProgress
           /\ configProgress' = IF toConfig THEN ConfigListener(configProgress, e)
                                ELSE configProgress
           /\ jellyfinAuth' = IF toConfig THEN AuthKept(jellyfinAuth, e) ELSE jellyfinAuth
           /\ logs' = IF toFlash \/ toConfig THEN addLog(logs, 1) ELSE logs
    /\ events' = Tail(events)
    /\ EventFrame
    /\ UNCHANGED << flashTasks, installTasks, piAddress >>
    /\ Persist

\* flash_sd_card returns: with success only after its last stage, and what
\* it emitted before returning has been handled before the response is
FlashRunReturns(i, ok) ==
    /\ events = <<>>
    /\ i \in 1 .. Len(flashTasks)
    /\ ok => flashTasks[i].stage = Len(FlashStages)
    /\ FlashSdCardReturns(i, ok)

\* how long run_installation waits for the Pi to come back after a reboot
GracePeriod == 2
\* addresses the Pi may hold after a reboot
Addresses == {PiAddr, NewAddr}

\* every field of the model that the connection of a run does not touch
LinkFrame ==
    /\ EventFrame
    /\ UNCHANGED << logs, flashProgress, configProgress, flashTasks, jellyfinAuth,
                    events >>

\* the Pi reboots in the reboot stage: the SSH connection of the run drops,
\* and the Pi comes back under the address addr
RebootDrops(i, addr) ==
    /\ i \in 1 .. Len(installTasks)
    /\ installTasks[i].pc = "install"
    /\ installTasks[i].stage >= 1
    /\ InstallStages[installTasks[i].stage] = "reboot"
    /\ installTasks[i].conn = "up"
    /\ installTasks' = [installTasks EXCEPT ![i].conn = "lost", ![i].waited = 0]
    /\ piAddress' = addr
    /\ LinkFrame
    /\ Persist

\* time passes while the run waits for the Pi
GraceTick(i) ==
    /\ i \in 1 .. Len(installTasks)
    /\ installTasks[i].pc = "install"
    /\ installTasks[i].conn = "lost"
    /\ installTasks[i].waited < GracePeriod
    /\ installTasks' = [installTasks EXCEPT ![i].waited = @ + 1]
    /\ UNCHANGED piAddress
    /\ LinkFrame
    /\ Persist

\* the address run_installation connects to again: the host it was invoked
\* with (host: piInfo.ip is the only address or name it receives)
ReconnectTarget(t) == t.host

\* within the grace period the run reaches the Pi again
Reconnects(i) ==
    /\ i \in 1 .. Len(installTasks)
    /\ installTasks[i].pc = "install"
    /\ installTasks[i].conn = "lost"
    /\ installTasks[i].waited < GracePeriod
    /\ ReconnectTarget(installTasks[i]) = piAddress
    /\ installTasks' = [installTasks EXCEPT ![i].conn = "back"]
    /\ UNCHANGED piAddress
    /\ LinkFrame
    /\ Persist

\* run_installation returns: with success only after its last stage; while
\* the connection is lost it returns only once the grace period is over,
\* and then with the error ConnectionLost
InstallRunReturns(i, ok) ==
    /\ events = <<>>
    /\ i \in 1 .. Len(installTasks)
    /\ ok => installTasks[i].stage = Len(InstallStages)
    /\ installTasks[i].conn = "lost" =>
          ~ok /\ installTasks[i].waited = GracePeriod
    /\ RunInstallationReturns(i, ok)


\* ------------------------------------------------- one install run, followed
\* A fresh session in which the user has chosen "connect an existing Pi",
\* pressed "Rechercher le Pi" without editing the form, and the first
\* discover_pi has found the Pi: ConfigProgress has just mounted and its
\* connection test is outstanding.
InitInstallRun ==
    /\ step = "configure"
    /\ flowMode = "connect"
    /\ permission = "done"
    /\ config = [hostname |-> JellyPi, filled |-> FALSE]
    /\ selectedSD = 0
    /\ sshCredentials = 0
    /\ piInfo = [ip |-> PiAddr, hostname |-> JellyPi]
    /\ installationId = 0
    /\ logs = 0
    /\ sdSelection = NoSdSelection
    /\ flashProgress = NoFlashProgress
    /\ flashTasks = <<>>
    /\ flashedKey = 0
    /\ waitingPi = NoWaitingPi
    /\ lookups = EmptyBag
    /\ configProgress = [NoConfigProgress EXCEPT !.id = 1, !.hasStarted = TRUE,
                                                 !.listening = TRUE]
    /\ installTasks = << NewInstallTask(1, 0, [ip |-> PiAddr, hostname |-> JellyPi]) >>
    /\ jellyfinAuth = 0
    /\ events = <<>>
    /\ storage = partialize(StoreState)
    /\ piAddress = PiAddr
    /\ lastListed = {}
    /\ servicesView = NoServicesView

\* the run with the events of run_installation and its connection followed;
\* after a failure the user may retry and the Pi is searched for again
NextInstallRun ==
    \/ ConfigEffectRerun
    \/ \E i \in 1 .. MaxInstallRuns, res \in Results : TestConnectionReturns(i, res)
    \/ \E i \in 1 .. MaxInstallRuns, pct \in Percents : InstallEmits(i, pct)
    \/ HandleProgressEvent
    \/ \E i \in 1 .. MaxInstallRuns, addr \in Addresses : RebootDrops(i, addr)
    \/ \E i \in 1 .. MaxInstallRuns : GraceTick(i)
    \/ \E i \in 1 .. MaxInstallRuns : Reconnects(i)
    \/ \E i \in 1 .. MaxInstallRuns, ok \in BOOLEAN : InstallRunReturns(i, ok)
    \/ \E i \in 1 .. MaxInstallRuns, ok \in BOOLEAN : SaveToSupabaseReturns(i, ok)
    \/ \E i \in 1 .. MaxInstallRuns : ConfigOnComplete(i)
    \/ ConfigOnError
    \/ \E r \in BagToSet(lookups), res \in Outcomes : AutoDiscoverReturns(r, res)

SpecInstallRun == InitInstallRun /\ [][NextInstallRun]_vars

\* InitInstallRun is a state of Spec (OnGranted, OnConnectExisting,
\* QuickConnectNext, AutoDiscoverReturns): as an invariant of Spec this is
\* violated
InstallRunStartUnreached == ~InitInstallRun


\* --------------------------------------------- two flash runs at the same time
\* The state FlashStartLatched (C1) is violated in, once the discover_pi that
\* was still outstanding has returned: flash_sd_card of the first
\* FlashProgress instance is running, the wizard has come back to the flash
\* step, and flash_sd_card of the second instance, the mounted one, has been
\* invoked.  No progress event has been emitted yet.
InitFlashOverlap ==
    /\ step = "flash"
    /\ flowMode = "full"
    /\ permission = "done"
    /\ config = [hostname |-> JellyPi, filled |-> TRUE]
    /\ selectedSD = 1
    /\ sshCredentials = 2
    /\ piInfo = [ip |-> PiAddr, hostname |-> JellyPi]
    /\ installationId = 0
    /\ logs = 0
    /\ sdSelection = NoSdSelection
    /\ flashProgress = [NoFlashProgress EXCEPT !.id = 2, !.hasStarted = TRUE,
                                               !.listening = TRUE]
    /\ flashTasks = << [NewFlashTask(1, 1) EXCEPT !.key = 1, !.pc = "flashing"],
                       [NewFlashTask(2, 1) EXCEPT !.key = 2, !.pc = "flashing"] >>
    /\ flashedKey = 0
    /\ waitingPi = NoWaitingPi
    /\ lookups = EmptyBag
    /\ configProgress = NoConfigProgress
    /\ installTasks = << Ended(NewInstallTask(1, 0, NoPi)) >>
    /\ jellyfinAuth = 0
    /\ events = <<>>
    /\ storage = partialize(StoreState)
    /\ piAddress = PiAddr
    /\ lastListed = {}
    /\ servicesView = NoServicesView

\* both runs with the events of flash_sd_card followed
NextFlashOverlap ==
    \/ FlashEffectRerun
    \/ \E i \in 1 .. MaxFlashRuns, pct \in Percents : FlashEmits(i, pct)
    \/ HandleProgressEvent
    \/ \E i \in 1 .. MaxFlashRuns, ok \in BOOLEAN : FlashRunReturns(i, ok)
    \/ \E i \in 1 .. MaxFlashRuns : FlashOnComplete(i)
    \/ FlashOnError

SpecFlashOverlap == InitFlashOverlap /\ [][NextFlashOverlap]_vars

\* InitFlashOverlap is a state of Spec: as an invariant of Spec this is
\* violated
FlashOverlapUnreached == ~InitFlashOverlap


\* ------------------------------------------- two install runs at the same time
\* The state OneInstallOutstanding (C2) is violated in: run_installation of
\* the first ConfigProgress instance is running, the wizard has come back to
\* the configure step, and run_installation of the second instance, the
\* mounted one, has been invoked.  No progress event has been emitted yet.
InitInstallOverlap ==
    /\ step = "configure"
    /\ flowMode = "full"
    /\ permission = "done"
    /\ config = [hostname |-> JellyPi, filled |-> TRUE]
    /\ selectedSD = 1
    /\ sshCredentials = 1
    /\ piInfo = [ip |-> PiAddr, hostname |-> JellyPi]
    /\ installationId = 0
    /\ logs = 1
    /\ sdSelection = NoSdSelection
    /\ flashProgress = NoFlashProgress
    /\ flashTasks = << FlashEnded(NewFlashTask(1, 1)) >>
    /\ flashedKey = 1
    /\ waitingPi = NoWaitingPi
    /\ lookups = EmptyBag
    /\ configProgress = [NoConfigProgress EXCEPT !.id = 2, !.hasStarted = TRUE,
                           !.listening = TRUE, !.progress = 12, !.currentStep = 1]
    /\ installTasks =
         [i \in 1 .. 2 |-> [NewInstallTask(i, 1, [ip |-> PiAddr, hostname |-> JellyPi])
                              EXCEPT !.pc = "install", !.sshOk = "true"]]
    /\ jellyfinAuth = 0
    /\ events = <<>>
    /\ storage = partialize(StoreState)
    /\ piAddress = PiAddr
    /\ lastListed = {}
    /\ servicesView = NoServicesView

\* both runs with the events of run_installation followed
NextInstallOverlap ==
    \/ ConfigEffectRerun
    \/ \E i \in 1 .. MaxInstallRuns, pct \in Percents : InstallEmits(i, pct)
    \/ HandleProgressEvent
    \/ \E i \in 1 .. MaxInstallRuns, ok \in BOOLEAN : InstallRunReturns(i, ok)
    \/ \E i \in 1 .. MaxInstallRuns, ok \in BOOLEAN : SaveToSupabaseReturns(i, ok)
    \/ \E i \in 1 .. MaxInstallRuns : ConfigOnComplete(i)
    \/ ConfigOnError

SpecInstallOverlap == InitInstallOverlap /\ [][NextInstallOverlap]_vars

\* InitInstallOverlap is a state of Spec: as an invariant of Spec this is
\* violated
InstallOverlapUnreached == ~InitInstallOverlap


\* ---------------------------------------- discovery before the Pi has booted
\* The session of InitDiscovery, with the Pi not yet on the network: it holds
\* no address until it has booted.
InitBoot ==
    /\ step = "waiting"
    /\ flowMode = "connect"
    /\ permission = "done"
    /\ config = [hostname |-> JellyPi, filled |-> FALSE]
    /\ selectedSD = 0
    /\ sshCredentials = 0
    /\ piInfo = NoPi
    /\ installationId = 0
    /\ logs = 1
    /\ sdSelection = NoSdSelection
    /\ flashProgress = NoFlashProgress
    /\ flashTasks = <<>>
    /\ flashedKey = 0
    /\ waitingPi = [mounted |-> TRUE, attempts |-> 1, manualMode |-> FALSE,
                    manualInput |-> Empty, currentAttempt |-> 1]
    /\ lookups = SetToBag({AutoLookup(JellyPi)})
    /\ configProgress = NoConfigProgress
    /\ installTasks = <<>>
    /\ jellyfinAuth = 0
    /\ events = <<>>
    /\ storage = partialize(StoreState)
    /\ piAddress = Empty
    /\ lastListed = {}
    /\ servicesView = NoServicesView

\* discover_pi: not found (or an error) while the device is not reachable,
\* the target once it is
resolve(res) == (res = "found") <=> (piAddress # Empty)

\* the Pi finishes booting and takes its address, after several attempts at
\* most (the loop is followed up to LoopCap attempts)
PiBoots ==
    /\ piAddress = Empty
    /\ waitingPi.mounted
    /\ waitingPi.currentAttempt < LoopCap
    /\ piAddress' = PiAddr
    /\ UNCHANGED << step, flowMode, permission, storeVars, logs, sdSelection,
                    flashProgress, flashTasks, flashedKey, waitingPi, lookups,
                    configProgress, installTasks, jellyfinAuth, events,
                    lastListed, servicesView >>
    /\ Persist

\* an outstanding attempt of the loop is answered
DiscoverPiAnswers ==
    \E r \in BagToSet(lookups), res \in Outcomes :
        resolve(res) /\ AutoDiscoverReturns(r, res)

\* the user stays in automatic discovery: nothing but the loop runs
NextBoot ==
    \/ IntervalTick(LoopCap)
    \/ DiscoverPiAnswers
    \/ PiBoots

\* setInterval calls doSearch every 8 s while the effect is live, and every
\* discover_pi call is answered within its timeout
SpecBoot ==
    /\ InitBoot
    /\ [][NextBoot]_vars
    /\ WF_vars(IntervalTick(LoopCap))
    /\ WF_vars(DiscoverPiAnswers)

\* ------------------------------------------------------------- ServicesView
\* ServicesView is a screen of its own, outside the steps of the wizard: the
\* wizard is at its menu, and ServicesView has just mounted, its mount effect
\* having called scanNetwork, which awaits discover_pi for the first hostname.

\* const hostnames = ['jellypi', 'raspberrypi', 'jellypi-nico']
scanHostnames == <<"jellypi", "raspberrypi", "jellypi-nico">>
\* currentAttempt < 10
maxRounds == 10

InitServices ==
    /\ step = "menu"
    /\ flowMode = "full"
    /\ permission = "done"
    /\ config = [hostname |-> JellyPi, filled |-> FALSE]
    /\ selectedSD = 0
    /\ sshCredentials = 0
    /\ piInfo = NoPi
    /\ installationId = 0
    /\ logs = 0
    /\ sdSelection = NoSdSelection
    /\ flashProgress = NoFlashProgress
    /\ flashTasks = <<>>
    /\ flashedKey = 0
    /\ waitingPi = NoWaitingPi
    /\ lookups = EmptyBag
    /\ configProgress = NoConfigProgress
    /\ installTasks = <<>>
    /\ jellyfinAuth = 0
    /\ events = <<>>
    /\ storage = partialize(StoreState)
    /\ piAddress \in Addresses
    /\ lastListed = {}
    /\ servicesView = [mounted |-> TRUE, searching |-> TRUE, attempts |-> 1,
                       foundPis |-> {}, currentAttempt |-> 1, pc |-> "await",
                       host |-> 1]

\* every field of the model that ServicesView does not touch
ServicesFrame ==
    UNCHANGED << step, flowMode, permission, storeVars, logs, sdSelection,
                 flashProgress, flashTasks, flashedKey, waitingPi, lookups,
                 configProgress, installTasks, jellyfinAuth, events, piAddress,
                 lastListed >>

\* foundPis as scanNetwork reads it: the effect has no dependencies, so the
\* closure is the one of the first render and its foundPis is the initial
\* state, whatever setFoundPis has stored since
foundPisInClosure(view) == {}

\* setFoundPis(prev => prev.some(p => p.ip === result.ip) ? prev
\*                                        : [...prev, { ...result, hostname }])
addFoundPi(prev, ip, hostname) ==
    IF \E p \in prev : p.ip = ip THEN prev
    ELSE prev \cup {[ip |-> ip, hostname |-> hostname]}

\* scanNetwork after the hostnames of a round (or after a throw): another
\* round in 3 s, or setSearching(false)
EndOfRound(view, found) ==
    IF view.mounted /\ Cardinality(foundPisInClosure(view)) = 0
                    /\ view.currentAttempt < maxRounds
    THEN [view EXCEPT !.pc = "timer", !.foundPis = found]
    ELSE [view EXCEPT !.pc = "done", !.foundPis = found, !.searching = FALSE]

\* scanNetwork after await invoke('discover_pi') for hostnames[host]: res
\* is "found", "null" or "throw"; cancelled is the effect's flag, set by the
\* cleanup when the component unmounts
ScanAnswers(res) ==
    /\ servicesView.pc = "await"
    /\ LET view == servicesView
           cancelled == ~view.mounted
           found == IF res = "found" /\ ~cancelled
                    THEN addFoundPi(view.foundPis, piAddress, scanHostnames[view.host])
                    ELSE view.foundPis
       IN  servicesView' =
             IF res = "throw" \/ view.host = Len(scanHostnames)
             THEN EndOfRound(view, found)
             ELSE IF cancelled
             THEN [view EXCEPT !.pc = "done"]
             ELSE [view EXCEPT !.host = @ + 1, !.foundPis = found]
    /\ ServicesFrame
    /\ Persist

\* setTimeout(scanNetwork, 3000) fires: if (cancelled) return;
\* currentAttempt++; setAttempts(currentAttempt); the first hostname is asked
ScanTimerFires ==
    /\ servicesView.pc = "timer"
    /\ servicesView' =
         IF ~servicesView.mounted
         THEN [servicesView EXCEPT !.pc = "done"]
         ELSE [servicesView EXCEPT !.currentAttempt = @ + 1,
                                   !.attempts = servicesView.currentAttempt + 1,
                                   !.host = 1, !.pc = "await"]
    /\ ServicesFrame
    /\ Persist

\* onBack: ServicesView unmounts, the cleanup sets cancelled, the state of
\* the component is gone; the scanNetwork call goes on
ServicesOnBack ==
    /\ servicesView.mounted
    /\ servicesView' = [servicesView EXCEPT !.mounted = FALSE, !.searching = FALSE,
                                            !.attempts = 0, !.foundPis = {}]
    /\ ServicesFrame
    /\ Persist

\* "Relancer la recherche", rendered when !searching: setSearching(true);
\* setAttempts(0); setFoundPis([]) -- scanNetwork is not called, and the
\* effect, which has no dependencies, does not run again
Rescan ==
    /\ servicesView.mounted
    /\ ~servicesView.searching
    /\ servicesView' = [servicesView EXCEPT !.searching = TRUE, !.attempts = 0,
                                            !.foundPis = {}]
    /\ ServicesFrame
    /\ Persist

NextServices ==
    \/ \E res \in Outcomes : ScanAnswers(res)
    \/ ScanTimerFires
    \/ ServicesOnBack
    \/ Rescan

SpecServices == InitServices /\ [][NextServices]_vars

\* ------------------------------------- the discovery loop, attempts overlapping
\* The session of InitDiscovery with the interval followed as it fires: every
\* 8 s, while discover_pi is given 10 s to answer.
NextLoopOverlap ==
    \/ IntervalTickWithin(LoopCap, MaxOverlap)
    \/ \E r \in BagToSet(lookups), res \in Outcomes : AutoDiscoverReturns(r, res)
    \/ SetManualMode

SpecLoopOverlap == InitDiscovery /\ [][NextLoopOverlap]_vars

\* ------------------------------------------------------ SD selection alone
\* A session in which the user has chosen a new setup and is on the SD
\* selection step, list_sd_cards outstanding, with the selection an earlier
\* session has persisted; the user goes back and forth between the menu, the
\* SD selection and the form.
InitSdSelect ==
    /\ step = "sd-selection"
    /\ flowMode = "full"
    /\ permission = "done"
    /\ config = [hostname |-> JellyPi, filled |-> FALSE]
    /\ selectedSD \in Cards \cup {0}
    /\ sshCredentials = 0
    /\ piInfo = NoPi
    /\ installationId = 0
    /\ logs = 0
    /\ sdSelection = [sdCards |-> {}, loading |-> TRUE, confirmed |-> FALSE]
    /\ flashProgress = NoFlashProgress
    /\ flashTasks = <<>>
    /\ flashedKey = 0
    /\ waitingPi = NoWaitingPi
    /\ lookups = EmptyBag
    /\ configProgress = NoConfigProgress
    /\ installTasks = <<>>
    /\ jellyfinAuth = 0
    /\ events = <<>>
    /\ storage = partialize(StoreState)
    /\ piAddress = PiAddr
    /\ lastListed = {}
    /\ servicesView = NoServicesView

NextSdSelect ==
    \/ \E ok \in BOOLEAN, attached \in SUBSET (Cards \cup {InternalDisk}) :
           ListSdCardsReturns(ok, list_sd_cards(attached))
    \/ RefreshSdCards
    \/ \E card \in Cards \cup {InternalDisk} : SelectCard(card)
    \/ \E b \in BOOLEAN : SetConfirmed(b)
    \/ SdHandleNext
    \/ SdOnBack
    \/ OnNewSetup
    \/ WelcomeNext
    \/ ConfigFormBack

SpecSdSelect == InitSdSelect /\ [][NextSdSelect]_vars

\* ------------------------------------------------------------------ claims
\* C1: a FlashProgress instance starts startFlashing at most once however
\* often its mount effect runs (so generate_ssh_keys and flash_sd_card are
\* invoked at most once for it and it has one terminal outcome), and at most
\* one flash_sd_card invocation is in flight at any time in the session.
FlashStartLatched ==
    /\ \A i, j \in 1 .. Len(flashTasks) :
         flashTasks[i].inst = flashTasks[j].inst => i = j
    /\ Cardinality({ i \in 1 .. Len(flashTasks) : flashTasks[i].pc = "flashing" }) <= 1

\* C2: a ConfigProgress instance starts runConfiguration at most once, and
\* at most one run_installation / run_installation_password invocation is
\* outstanding at any time in the session.
OneInstallOutstanding ==
    /\ \A i, j \in 1 .. Len(installTasks) :
         installTasks[i].inst = installTasks[j].inst => i = j
    /\ Cardinality({ i \in 1 .. Len(installTasks) : installTasks[i].pc = "install" }) <= 1

\* C3: an install run started in the connect flow authenticates by password,
\* and an install run started in the full flow after a flash that succeeded
\* authenticates with the generated key, whatever happened earlier in the
\* session.
AuthModeFollowsFlow ==
    [][ Len(installTasks') > Len(installTasks) =>
          LET t == installTasks'[Len(installTasks')]
          IN  /\ flowMode' = "connect" => t.usePassword
              /\ (flowMode' = "full" /\ flashedKey' # 0) => ~t.usePassword ]_vars

\* C4: whenever test_ssh_connection or run_installation is invoked with a
\* private key, the key belongs to the keypair whose public key the last
\* successful flash_sd_card injected.
KeyMatchesFlashedCard ==
    [][ \A i \in 1 .. Len(installTasks') :
          LET t == installTasks'[i]
              invoked == \/ i > Len(installTasks)
                         \/ installTasks[i].pc # t.pc
          IN  (invoked /\ t.pc \in {"test", "install"} /\ ~t.usePassword)
                 => t.key = flashedKey' ]_vars

\* C5: the attempt counter of the automatic discovery loop, and the number
\* of discover_pi calls one loop has issued, never exceed maxAttempts.
AttemptsWithinCeiling ==
    /\ waitingPi.attempts <= maxAttempts
    /\ waitingPi.currentAttempt <= maxAttempts


\* C6: a manual override that is a dotted-quad address reaches onPiFound as
\* it was typed (trimmed), without any discover_pi call, and the connection
\* test and the install are invoked on that address; a manual override that
\* is not an address is looked up by discover_pi under its hostname, and the
\* wizard then advances with what discover_pi resolved.
ManualOverrideTrusted ==
    [][ LET typedIp == waitingPi.manualInput \in {ManualIp, <<" ">> \o ManualIp \o <<" ">>}
            typedName == waitingPi.manualInput = JellyPi \o DotLocal
            manual(b) == { r \in BagToSet(b) : ~r.auto }
            fresh == { r \in manual(lookups') : BagCount(lookups', r) > BagCount(lookups, r) }
            answered == { r \in BagToSet(lookups) :
                            BagCardinality(lookups') < BagCardinality(lookups)
                            /\ BagCount(lookups', r) < BagCount(lookups, r) }
        IN  /\ fresh # {} =>
                 /\ typedName
                 /\ \A r \in fresh : r.hostname = JellyPi
                 /\ step' = step /\ piInfo' = piInfo
            /\ (step = "waiting" /\ step' = "configure") =>
                 IF answered = {}
                 THEN /\ waitingPi.manualMode /\ typedIp
                      /\ piInfo' = [ip |-> ManualIp, hostname |-> ManualIp]
                      /\ Len(installTasks') = Len(installTasks) + 1
                      /\ installTasks'[Len(installTasks')].host = ManualIp
                 ELSE \A r \in answered :
                        /\ piInfo' = [ip |-> PiAddr, hostname |-> r.hostname]
                        /\ installTasks'[Len(installTasks')].host = PiAddr
            /\ \A i \in 1 .. Len(installTasks) :
                 installTasks'[i].pc = "install" => installTasks'[i].host = installTasks[i].host
      ]_vars

\* C6 witness: the install is running against the address that was typed
ManualIpInstalling ==
    \E i \in 1 .. Len(installTasks) :
        installTasks[i].pc = "install" /\ installTasks[i].host = ManualIp

\* C7: once manual mode is on the loop issues no further discover_pi call,
\* and the result of an automatic attempt that was still in flight is
\* discarded: it neither calls onPiFound nor writes a log line.
ManualModeStopsLoop ==
    [][ LET auto(b) == { r \in BagToSet(b) : r.auto }
        IN  waitingPi.manualMode =>
              /\ waitingPi'.manualMode =>
                   \A r \in auto(lookups') : BagCount(lookups', r) <= BagCount(lookups, r)
              /\ \A r \in auto(lookups) :
                   BagCount(lookups', r) < BagCount(lookups, r)
                      => step' = step /\ piInfo' = piInfo /\ logs' = logs ]_vars

\* C8: a startFlashing call that fails ends there: the instance that is
\* mounted shows the error, the call never reaches onComplete or another
\* flash_sd_card, and a new call is made only when the user comes back to the
\* flash step from the form; the new call starts at generate_ssh_keys.
FlashFailureTerminal ==
    [][ /\ Len(flashTasks') >= Len(flashTasks)
        /\ \A i \in 1 .. Len(flashTasks) :
             LET t == flashTasks[i]
                 u == flashTasks'[i]
             IN  /\ t.pc = "ended" => u = t
                 /\ u.pc = "keygen" => t.pc = "keygen"
                 /\ u.pc = "flashing" => t.pc \in {"keygen", "flashing"}
                 /\ u.pc = "timer" => t.pc \in {"flashing", "timer"}
                 /\ (t.pc \in {"keygen", "flashing"} /\ u.pc = "ended") =>
                      /\ step' = step
                      /\ Len(flashTasks') = Len(flashTasks)
                      /\ flashProgress.id = t.inst => flashProgress'.error
        /\ Len(flashTasks') > Len(flashTasks) =>
             /\ Len(flashTasks') = Len(flashTasks) + 1
             /\ step = "config" /\ step' = "flash"
             /\ flashTasks'[Len(flashTasks')].pc = "keygen"
             /\ flashTasks'[Len(flashTasks')].key = 0 ]_vars

\* C8 witness: no flash of the session has succeeded, the first call has
\* ended, and the call of the retry has got from key generation to flash_sd_card
FlashRetriedFromKeygen ==
    /\ Len(flashTasks) = 2
    /\ flashTasks[1].pc = "ended"
    /\ flashedKey = 0
    /\ flashTasks[2].pc = "flashing"

\* C9: a runConfiguration call that fails ends there; run_installation or
\* run_installation_password is invoked only by a call whose own connection
\* test resolved to true, and a new call is made only when the wizard enters
\* the configure step again, starting at the connection test.
InstallFailureTerminal ==
    [][ /\ Len(installTasks') >= Len(installTasks)
        /\ \A i \in 1 .. Len(installTasks) :
             LET t == installTasks[i]
                 u == installTasks'[i]
             IN  /\ t.pc = "ended" => u = t
                 /\ u.pc = "test" => t.pc = "test"
                 /\ u.pc = "install" => t.pc \in {"test", "install"} /\ u.sshOk = "true"
                 /\ u.pc = "save" => t.pc \in {"install", "save"}
                 /\ u.pc = "timer" => t.pc \in {"save", "timer"}
                 /\ (t.pc \in {"test", "install", "save"} /\ u.pc = "ended") =>
                      /\ step' = step
                      /\ Len(installTasks') = Len(installTasks)
                      /\ configProgress.id = t.inst => configProgress'.error
        /\ Len(installTasks') > Len(installTasks) =>
             /\ Len(installTasks') = Len(installTasks) + 1
             /\ step # "configure" /\ step' = "configure"
             /\ installTasks'[Len(installTasks')].pc = "test"
             /\ installTasks'[Len(installTasks')].sshOk = "none" ]_vars

\* C9 witness: the first call failed (nothing was ever saved), and the call
\* of the retry has passed its own connection test
InstallRetriedFromTest ==
    /\ Len(installTasks) = 2
    /\ installTasks[1].pc = "ended"
    /\ installationId = 0
    /\ installTasks[2].pc = "install"
    /\ installTasks[2].sshOk = "true"

\* C10: a runConfiguration call invokes save_to_supabase at most once, and
\* only at the moment its run_installation / run_installation_password has
\* returned successfully: not before, not during, not after a failure.
SavedOnceAfterInstall ==
    [][ \A i \in 1 .. Len(installTasks') :
          LET u == installTasks'[i]
              before == IF i <= Len(installTasks) THEN installTasks[i].saves ELSE 0
          IN  /\ u.saves <= 1
              /\ u.saves > 0 => u.pc \in {"save", "timer"}
              /\ u.saves > before =>
                   /\ i <= Len(installTasks)
                   /\ installTasks[i].pc = "install"
                   /\ u.pc = "save" ]_vars

\* C10 witness: a call has saved once and is waiting for its timer
SavedAndCompleting ==
    \E i \in 1 .. Len(installTasks) :
        installTasks[i].pc = "timer" /\ installTasks[i].saves = 1

\* C11: what save_to_supabase receives as sshPrivateKeyEncrypted is an
\* encrypted blob (or nothing, when the run has no key): never the private
\* key as generate_ssh_keys returned it.
EncryptedBlobOnly ==
    \A i \in 1 .. Len(installTasks) :
        LET t == installTasks[i]
        IN  (t.saves > 0 /\ t.saved.key # 0) => t.saved.encrypted

\* C12: the snapshot the store persists locally holds config and selectedSD
\* and nothing else, whatever the store has been through: neither
\* sshCredentials (the generated private key) nor jellyfinAuth is in it.
SnapshotHoldsNoSecret == DOMAIN storage = {"config", "selectedSD"}

\* C12 witness: a keypair is in the store, and the snapshot has been written
\* since the session began (it holds the form as the user filled it)
KeyHeldSnapshotWritten ==
    /\ sshCredentials # 0
    /\ storage.config.filled
    /\ storage.selectedSD # 0

\* C14: while one ConfigProgress instance is mounted the percentage it holds
\* never goes down, whether it was set by runConfiguration (12 after the
\* connection test, 100 at completion) or copied from a progress event.
ConfigPercentMonotone ==
    [][ (configProgress.id # 0 /\ configProgress'.id = configProgress.id)
           => configProgress'.progress >= configProgress.progress ]_vars

ReResolvedAfterReboot ==
    \A i \in 1 .. Len(installTasks) :
        LET t == installTasks[i]
        IN  (t.pc = "install" /\ t.conn = "lost" /\ ~isIP(t.piName))
               => ReconnectTarget(t) = piAddress

\* C20: a progress event without jellyfin_auth leaves the stored jellyfinAuth
\* (and the rest of the store but the log) as it was, so that the value
\* stored when the event carrying jellyfin_auth was handled is kept through
\* the later events of the run; the event carrying it stores it.
AuthCarriedOnce ==
    [][ Len(events') < Len(events) =>
          LET e == Head(events)
          IN  /\ e.auth = 0 =>
                   /\ jellyfinAuth' = jellyfinAuth
                   /\ UNCHANGED << storeVars, installTasks >>
              /\ (e.auth # 0 /\ configProgress.id # 0 /\ configProgress.listening) =>
                   jellyfinAuth' = e.auth ]_vars

\* C20 witness: the credentials of the run are stored and the event of the
\* last stage, which carries none, has been handled
AuthKeptToLastStage ==
    \E i \in 1 .. Len(installTasks) :
        /\ installTasks[i].pc = "install"
        /\ installTasks[i].stage = Len(InstallStages)
        /\ events = <<>>
        /\ configProgress.id = installTasks[i].inst
        /\ configProgress.currentStep = stepMap.complete
        /\ jellyfinAuth = i

\* C13: while one FlashProgress instance is mounted the percentage it holds
\* never goes down, whatever progress events its listener is handed, up to
\* the 100 set when flash_sd_card has returned.
FlashPercentMonotone ==
    [][ (flashProgress.id # 0 /\ flashProgress'.id = flashProgress.id)
           => flashProgress'.progress >= flashProgress.progress ]_vars

\* C15: the stages FlashProgress displays are never out of order: at most one
\* is active, every stage before the active one is complete and every stage
\* after it is still pending.
StagesShownInOrder ==
    flashProgress.id # 0 =>
        \A k \in 1 .. Len(flashSteps) :
            flashProgress.steps[k] = "active" =>
                /\ \A j \in 1 .. k - 1 : flashProgress.steps[j] = "complete"
                /\ \A j \in k + 1 .. Len(flashSteps) : flashProgress.steps[j] = "pending"

\* C16: a flash_sd_card that returns successfully has gone through all its
\* stages; its startFlashing call then invokes onComplete once, the wizard
\* goes to the waiting step, and at that moment the instance that made the
\* call shows every stage complete and the percentage 100.
FlashEndsComplete ==
    [][ \A i \in 1 .. Len(flashTasks) :
          LET t == flashTasks[i]
              u == flashTasks'[i]
          IN  /\ (t.pc = "flashing" /\ u.pc = "timer") => t.stage = Len(FlashStages)
              /\ t.pc = "ended" => u = t
              /\ (t.pc = "timer" /\ u # t) =>
                   /\ u.pc = "ended"
                   /\ step' = "waiting"
                   /\ flashProgress.id = t.inst =>
                        /\ flashProgress.steps = AllComplete
                        /\ flashProgress.progress = 100 ]_vars

\* C17: the stage index ConfigProgress holds stays within its list of stages
\* (0 .. 8), never goes down while the instance is mounted, and a progress
\* event whose stage id stepMap does not know leaves it as it is.
StageIndexInOrder ==
    [][ /\ configProgress'.currentStep \in 0 .. Len(steps) - 1
        /\ (configProgress.id # 0 /\ configProgress'.id = configProgress.id)
              => configProgress'.currentStep >= configProgress.currentStep
        /\ (Len(events') < Len(events) /\ Head(events).step \notin DOMAIN stepMap)
              => configProgress'.currentStep = configProgress.currentStep ]_vars

\* C21: when discover_pi resolves to null or throws in the automatic loop,
\* the wizard stays on the waiting step with the component as it was: no
\* error is set anywhere, no Pi is recorded, and the loop is still live, so
\* that the next interval issues the next attempt.
MissKeepsLoopAlive ==
    [][\A r \in BagToSet(lookups) :
         (/\ r.auto
          /\ ~r.stale
          /\ lookups' = BagRemove(lookups, r)
          /\ step' = step)
         => /\ waitingPi' = waitingPi
            /\ waitingPi'.mounted /\ ~waitingPi'.manualMode
            /\ piInfo' = piInfo
            /\ flashProgress' = flashProgress
            /\ configProgress' = configProgress]_vars

\* the first attempt has missed and the interval has issued the second
SecondAttemptAfterMiss ==
    /\ step = "waiting"
    /\ waitingPi.mounted /\ ~waitingPi.manualMode
    /\ waitingPi.currentAttempt = 2
    /\ waitingPi.attempts = 2
    /\ \E r \in BagToSet(lookups) : r.auto /\ ~r.stale
    /\ piInfo = NoPi

\* C22: in a session that stays in automatic discovery, once the Pi has
\* booted and discover_pi finds it, onPiFound is eventually called with its
\* hostname and address and the wizard is on the configure step.
BootedPiIsFound ==
    (piAddress # Empty)
        ~> (/\ step = "configure"
            /\ piInfo = [ip |-> piAddress, hostname |-> JellyPi])

\* the Pi was found after it booted, and the install run for it has begun
FoundAfterBoot ==
    /\ step = "configure"
    /\ piInfo = [ip |-> PiAddr, hostname |-> JellyPi]
    /\ ~waitingPi.mounted
    /\ lookups = EmptyBag
    /\ Len(installTasks) = 1
    /\ installTasks[1].host = PiAddr

\* C23: while flash_sd_card or run_installation invoked by the mounted
\* component is in flight, that component's 'flash-progress' listener is
\* registered, so that no progress event of the run finds no listener.
ListenerBeforeRun ==
    /\ \A i \in 1 .. Len(flashTasks) :
          (flashTasks[i].pc = "flashing" /\ flashTasks[i].inst = flashProgress.id)
              => flashProgress.listening
    /\ \A i \in 1 .. Len(installTasks) :
          (installTasks[i].pc = "install" /\ installTasks[i].inst = configProgress.id)
              => configProgress.listening

\* C24: whenever flash_sd_card is invoked, the device it is given is one of
\* those the most recent list_sd_cards call of the session returned.
FlashedDeviceListed ==
    [][\A i \in 1 .. Len(flashTasks) :
         (flashTasks[i].pc = "keygen" /\ flashTasks'[i].pc = "flashing")
             => flashTasks'[i].sd \in lastListed']_vars

\* C25: every device listed for selection is removable, and so is the
\* selected device and every device handed to a flash run.
OnlyRemovableOffered ==
    /\ \A d \in sdSelection.sdCards : removable(d)
    /\ selectedSD # 0 => removable(selectedSD)
    /\ \A i \in 1 .. Len(flashTasks) :
          flashTasks[i].sd # 0 => removable(flashTasks[i].sd)

\* a device that was listed and chosen in this session is being flashed
ListedDeviceFlashing ==
    \E i \in 1 .. Len(flashTasks) :
        /\ flashTasks[i].pc = "flashing"
        /\ flashTasks[i].sd \in lastListed
        /\ flashTasks[i].sd = selectedSD

\* C26: while a flash_sd_card or a run_installation invocation is in
\* flight, no step changes the stored config.
ConfigFrozenInFlight ==
    [][((\E i \in 1 .. Len(flashTasks) : flashTasks[i].pc = "flashing")
        \/ (\E i \in 1 .. Len(installTasks) : installTasks[i].pc = "install"))
       => config' = config]_vars

TestFailureEndsRun ==
    [][\A i \in 1 .. Len(installTasks) :
         LET t == installTasks[i]
             u == installTasks'[i]
         IN  /\ (t.pc = "test" /\ u.pc # "test" /\ u.sshOk # "true") =>
                  /\ u.pc = "ended"
                  /\ u.saves = 0
                  /\ installationId' = installationId
                  /\ step' = step
                  /\ configProgress.id = t.inst => configProgress'.error
             /\ t.pc = "ended" => u.pc = "ended"]_vars

\* the connection test of the mounted instance failed: the error is shown
\* with the display still at the first stage, and nothing was saved
TestFailedShown ==
    /\ step = "configure"
    /\ configProgress.id = 1
    /\ configProgress.error
    /\ configProgress.currentStep = 0
    /\ configProgress.progress = 0
    /\ installTasks[1].pc = "ended"
    /\ installationId = 0

\* C29: the wizard leaves the permission step only through the timer that
\* is armed when check_disk_access has returned true or when the
\* jellysetup_fda_confirmed flag was found set; a check that returned false
\* or threw leaves the wizard on the permission step for good, and with the
\* flag set check_disk_access is never invoked.
PermissionGate ==
    [][ /\ (step = "permission" /\ step' # "permission")
            => permission \in {"skip", "timer"}
        /\ permission = "denied" => (permission' = "denied" /\ step' = "permission")
        /\ permission' = "timer" => permission \in {"checking", "timer"}
        /\ permission' = "checking" => permission = "checking"
        /\ permission = "skip" => permission' \in {"skip", "done"} ]_vars

\* check_disk_access has returned false or thrown: the wizard is still on
\* the permission step
AccessDeniedStays ==
    /\ step = "permission"
    /\ permission = "denied"

\* C30: scanNetwork arms the timer for another round only while foundPis is
\* empty, never starts an eleventh round, and when it has stopped on a
\* mounted ServicesView, searching is false.
ScanStopsWhenFound ==
    [][ /\ (servicesView.pc # "timer" /\ servicesView'.pc = "timer")
            => servicesView'.foundPis = {}
        /\ servicesView'.currentAttempt <= maxRounds
        /\ (servicesView'.pc = "done" /\ servicesView'.mounted)
            => ~servicesView'.searching ]_vars

\* C31: the wizard enters the configure step, and onPiFound stores a Pi,
\* only while the current step is 'waiting': a discovery result that comes
\* back after the user has left the waiting step changes nothing.
LateResultDiscarded ==
    [][ /\ (step # "configure" /\ step' = "configure") => step = "waiting"
        /\ (piInfo' # piInfo /\ piInfo' # NoPi) => step = "waiting" ]_vars

\* C32: at most one automatic discover_pi call of the live loop is
\* outstanding at any time, and a discovery phase calls onPiFound at most
\* once.
OneAttemptOutstanding ==
    [][ /\ \A r \in BagToSet(lookups') :
              (r.auto /\ ~r.stale) => CopiesIn(r, lookups') <= 1
        /\ Len(installTasks') <= 1 ]_vars

\* C33: from the start of a startFlashing call to its end, the FlashProgress
\* instance that made it has its 'flash-progress' listener registered, also
\* after React has cleaned up and re-run the mount effect on that instance.
FlashListenerSurvivesRerun ==
    \A i \in 1 .. Len(flashTasks) :
        (/\ flashTasks[i].inst = flashProgress.id
         /\ flashTasks[i].pc \in {"keygen", "flashing"})
            => flashProgress.listening

\* C34: a runConfiguration call whose installation has returned
\* successfully goes on to onComplete whatever save_to_supabase answers: it
\* never ends in the error state from there.
SaveFailureTolerated ==
    [][\A i \in 1 .. Len(installTasks) :
         installTasks[i].pc = "save" =>
             /\ installTasks'[i].pc \in {"save", "timer"}
             /\ configProgress.id = installTasks[i].inst
                    => configProgress'.error = configProgress.error]_vars

\* C35: selectedSD is not null whenever the step is 'flash' and whenever a
\* startFlashing call reads it, and piInfo is not null whenever the step is
\* 'configure' or 'complete'.
NonNullAssertionsHold ==
    /\ step = "flash" => selectedSD # 0
    /\ \A i \in 1 .. Len(flashTasks) :
          flashTasks[i].pc \in {"keygen", "flashing"} => flashTasks[i].sd # 0
    /\ step \in {"configure", "complete"} => piInfo # NoPi

\* C36: the wizard goes from the SD selection to the form only with a card
\* selected and the confirmation checked; the confirmation is only ever
\* checked for the card that is selected, and a step that selects another
\* card leaves it unchecked.
ConfirmationIsForSelectedCard ==
    [][ /\ (step = "sd-selection" /\ step' = "config")
            => (selectedSD # 0 /\ sdSelection.confirmed /\ selectedSD' = selectedSD)
        /\ selectedSD' # selectedSD => ~sdSelection'.confirmed
        /\ (sdSelection'.confirmed /\ ~sdSelection.confirmed)
            => (selectedSD' = selectedSD /\ selectedSD # 0) ]_vars

\* the second card, listed in this session, was selected and confirmed, and
\* the wizard has advanced to the form
ListedCardConfirmed ==
    /\ step = "config"
    /\ selectedSD = 2
    /\ lastListed = {1, 2}
    /\ storage.selectedSD = 2

\* C37: the step that sets searching to true again on a ServicesView whose
\* scan has ended starts a scan: discover_pi is invoked, so that the scan can
\* end and set searching to false again.
RescanStartsScan ==
    [][(servicesView.mounted /\ ~servicesView.searching /\ servicesView'.searching)
         => servicesView'.pc = "await"]_vars

====
